---- MODULE Spec2Model ----
(***************************************************************************)
(* Paged storage engine core of symmetric-concurrent-v4: the file API      *)
(* (storage/buffer/fs.rs), the disk manager (storage/buffer/diskmgr.rs),   *)
(* the buffer pool (storage/buffer/bufmgr.rs) and the concurrent file-io   *)
(* scenario of fs.rs.                                                      *)
(*                                                                         *)
(* Three specifications:                                                   *)
(*   Spec     threads calling the DiskMgr and BufferPool API in parallel;  *)
(*            every system call on the shared file handle is one step.     *)
(*   SeqSpec  the same steps, one call at a time, append calls only.       *)
(*   FsSpec   the writer and reader tasks of fs.rs test_concurrent_file_io.*)
(***************************************************************************)
EXTENDS Integers, Sequences, FiniteSets, TLC

\* ---------------------------------------------------------------- bounds
NumThreads == 2       \* threads calling the DiskMgr / BufferPool API
MaxOps     == 3       \* calls started in one behaviour of Spec / SeqSpec
MaxPageId  == 1       \* page ids 0..MaxPageId are passed to read_page / write_page
MaxSongId  == 2       \* records with ids 1..MaxSongId are passed as buffers
NumWriters == 10      \* writer tasks of the fs.rs scenario (the test spawns 15)
NumReaders == 1       \* reader tasks of the fs.rs scenario (the test spawns 5)

\* ------------------------------------------------------ program constants
PAGE_SIZE        == 4096
BUFFER_POOL_SIZE == 50
INVALID_PAGE_ID  == -1
INVALID_FRAME_ID == -1
WriteLimit       == 10     \* fs.rs write_song: num_writes >= 10
CtxInitWrites    == 1      \* fs.rs Ctx::create: num_writes: 1
DmNumWriters     == 7      \* diskmgr.rs test: for i in 0..songs.len() / 2, 15 songs
DmNumReaders     == 7      \* diskmgr.rs test: for _ in 0..songs.len() / 2
DmWriteLimit     == 5      \* diskmgr.rs write_song: num_writes >= 5

Threads == 1..NumThreads
PageIds == 0..MaxPageId
Writers == 1..NumWriters
Readers == (NumWriters + 1)..(NumWriters + NumReaders)
Tasks   == Writers \cup Readers
DmWriters == 1..DmNumWriters
DmReaders == (DmNumWriters + 1)..(DmNumWriters + DmNumReaders)
DmTasks   == DmWriters \cup DmReaders

\* ------------------------------------------------------------ page and io
\* A page is modelled by the bytes a record occupies in it: the four bytes of
\* the i32 id (bincode: little endian), then the title array and the artist
\* array, each array as one cell. The rest of the 4096 bytes is the zero
\* padding of to_buffer, which decode never reads.
empty == <<0, 0, 0, 0, 0, 0>>

\* i32 to its four little-endian bytes (two's complement; \div rounds down).
I32Bytes(v) ==
    <<v % 256, (v \div 256) % 256, (v \div 65536) % 256, (v \div 16777216) % 256>>

I32Value(b) ==
    LET hi == IF b[4] >= 128 THEN b[4] - 256 ELSE b[4]
    IN  b[1] + 256 * b[2] + 65536 * b[3] + 16777216 * hi

\* Song::new(id, title, artist): the title differs per song; song 0 is by
\* Twenty-One Pilots, the others by The Neighbourhood.
Song(i) == [id |-> i, title |-> 100 + i, artist |-> IF i = 0 THEN 2 ELSE 1]

encode(song) == I32Bytes(song.id) \o <<song.title, song.artist>>

decode(bytes) ==
    [id |-> I32Value(SubSeq(bytes, 1, 4)), title |-> bytes[5], artist |-> bytes[6]]

to_buffer(song) ==
    LET e == encode(song) IN [i \in 1..Len(empty) |-> IF i <= Len(e) THEN e[i] ELSE 0]

from_buffer(buf) == decode(buf)

Bufs == {to_buffer(Song(i)) : i \in 1..MaxSongId}

\* ------------------------------------------------------------------ state
VARIABLES
    file,            \* backing file: its length in bytes and its page slots
    pos,             \* cursor of the shared file handle, in bytes
    num_writes,      \* DiskMgrCtx.num_writes
    num_flushes,     \* DiskMgrCtx.num_flushes
    last_write,      \* DiskMgrCtx.last_write
    free_list,       \* BufferPoolContext.free_list
    frames,          \* BufferPoolContext.frames
    page_table,      \* BufferPoolContext.page_table, a set of <<page, frame>>
    frame,           \* one BufferPoolFrame: its page, dirty flag and latch
    fpc,             \* per thread: where it is in a FrameApi method
    fval,            \* per thread: what its last FrameApi method returned
    readers,         \* threads holding the pool's lock shared (self.read())
    pc,              \* per thread: where it is in its call
    call,            \* per thread: the call in progress or last made
    page_id,         \* per thread: append_bytes' local page_id
    ret,             \* per thread: what its last call returned
    nops,            \* calls started so far
    returned,        \* ids returned by alloc_page / append_page, in return order
    committed,       \* per page id: the buffer of the last returned write_page
    expect,          \* per thread: what a read_page is due to return
    occupied,        \* per thread: the slot page_id was taken when it wrote
    wlog,            \* the write_page / append_page calls that returned, in order
    latch,           \* holder of the fs.rs context's latch, 0 when free
    sem,             \* Context.sem
    last_written_id, \* Context.last_written_id
    ctx_num_writes,  \* Context.num_writes
    tpc,             \* per task: where it is in write_song / read_song
    tbuf             \* per reader task: its local buf

diskVars  == <<file, pos, num_writes, num_flushes, last_write>>
frVars    == <<frame, fpc, fval>>
poolVars  == <<free_list, frames, page_table, readers, frVars>>
thrVars   == <<pc, call, page_id, ret, nops, returned, committed, expect, occupied, wlog>>
fsVars    == <<latch, sem, last_written_id, ctx_num_writes, tpc, tbuf>>
vars      == <<diskVars, poolVars, thrVars, fsVars>>

NoPage == <<>>
NoCall == [op |-> "none", loc |-> -1, buf |-> NoPage, pre |-> <<>>]
NoRet  == [op |-> "none", loc |-> -1, val |-> NoPage, exp |-> NoPage, occ |-> FALSE,
           ok |-> TRUE, n |-> 0]

\* ---------------------------------------------------------------- file api
\* OpenOptions .create(true).truncate(true): a file of no bytes.
EmptyFile == [len |-> 0, pages |-> <<>>]

\* handle.metadata().len()
FileLen(f) == f.len

\* handle.write(bytes) at cursor `at`: PAGE_SIZE bytes land at `at`, the file
\* grows to at + PAGE_SIZE if it was shorter, and a write past the end leaves
\* a hole of zeros before it. The slot holding `at` takes the bytes.
WriteAt(f, at, bytes) ==
    LET slot == at \div PAGE_SIZE
        len  == IF at + PAGE_SIZE > f.len THEN at + PAGE_SIZE ELSE f.len
        n    == (len + PAGE_SIZE - 1) \div PAGE_SIZE
    IN  [len   |-> len,
         pages |-> [i \in 1..n |-> IF i = slot + 1 THEN bytes
                                   ELSE IF i <= Len(f.pages) THEN f.pages[i] ELSE empty]]

\* handle.read(buffer) at cursor `at`: the number of bytes read.
ReadCount(f, at) ==
    IF at >= FileLen(f) THEN 0
    ELSE IF FileLen(f) - at < PAGE_SIZE THEN FileLen(f) - at ELSE PAGE_SIZE

\* handle.read(buffer): the buffer afterwards; nothing read leaves it as it was.
ReadAt(f, at, buffer) ==
    IF ReadCount(f, at) = 0 THEN buffer ELSE f.pages[(at \div PAGE_SIZE) + 1]

\* The page id taken for a byte offset.
PageOffsetBytes(loc) == loc

\* diskmgr.rs read_page / write_page: loc * PAGE_SIZE
PageOffset(loc) == loc * PAGE_SIZE

\* fs.rs append_bytes: stat.len() / PAGE_SIZE
AppendPageId(len) == len \div PAGE_SIZE

\* handle.seek(SeekFrom::Start(0)) in place of End(0).
SeekEndStart(len) == 0

\* fs.rs append_bytes: handle.seek(SeekFrom::End(0))
SeekEnd(len) == len

\* ------------------------------------------------------ sync primitives
\* Synchronized<T>: latch() blocks until the exclusive lock is free and takes
\* it; unlatch() frees it.
Acquire(k) == latch = 0 /\ latch' = k
Release    == latch' = 0

\* BinarySemaphore: post sets it signaled; wait blocks until it is signaled
\* and clears it.
Post == sem' = TRUE
Wait == sem = TRUE /\ sem' = FALSE

\* RwSynchronized<T>::read(): shared access, granted while no writer holds the
\* lock; the pool's lock is never taken for writing. The guard is dropped
\* when the caller returns.
ReadLock(t)   == readers' = readers \cup {t}
ReadUnlock(t) == readers' = readers \ {t}

\* ------------------------------------------------------------------- Init
DiskInit ==
    /\ num_writes = 0
    /\ num_flushes = 0
    /\ last_write = INVALID_PAGE_ID

\* A free list one id longer: 1..=BUFFER_POOL_SIZE + 1.
PoolInitOversized ==
    /\ free_list = [i \in 1..(BUFFER_POOL_SIZE + 1) |-> i]
    /\ frames = <<>>
    /\ page_table = {}
    /\ readers = {}

\* A free list numbered from 0: (0..BUFFER_POOL_SIZE - 1) in place of 1..=50.
PoolInitZeroBased ==
    /\ free_list = [i \in 1..BUFFER_POOL_SIZE |-> i - 1]
    /\ frames = <<>>
    /\ page_table = {}
    /\ readers = {}

\* BufferPool::create: free_list.push_back(i) for i in 1..=BUFFER_POOL_SIZE,
\* frames Vec::new(), page_table empty.
PoolInit ==
    /\ free_list = [i \in 1..BUFFER_POOL_SIZE |-> i]
    /\ frames = <<>>
    /\ page_table = {}
    /\ readers = {}

\* A frame holding `page`, its RwSynchronized latch free.
Frame(page, dirty) == [page |-> page, dirty |-> dirty, writer |-> 0, readers |-> {}]

FrameInit ==
    /\ frame = Frame(empty, FALSE)
    /\ fpc = [t \in Threads |-> "idle"]
    /\ fval = [t \in Threads |-> NoPage]

ThreadsInit ==
    /\ pc = [t \in Threads |-> "idle"]
    /\ call = [t \in Threads |-> NoCall]
    /\ page_id = [t \in Threads |-> INVALID_PAGE_ID]
    /\ ret = [t \in Threads |-> NoRet]
    /\ nops = 0
    /\ returned = <<>>
    /\ committed = [p \in PageIds |-> NoPage]
    /\ expect = [t \in Threads |-> NoPage]
    /\ occupied = [t \in Threads |-> FALSE]
    /\ wlog = <<>>

CtxInit ==
    /\ latch = 0
    /\ sem = FALSE
    /\ last_written_id = 0
    /\ ctx_num_writes = CtxInitWrites
    /\ tpc = [k \in Tasks \cup {0} |-> "start"]
    /\ tbuf = [k \in Readers |-> empty]

\* DiskMgr::create and BufferPool::create on a truncated file.
Init ==
    /\ file = EmptyFile
    /\ pos = 0
    /\ DiskInit /\ PoolInit /\ FrameInit /\ ThreadsInit /\ CtxInit

\* ------------------------------------------------- ghost state of the calls
AppendOps == {"append_page", "alloc_page"}
AppendPcs == {"ap_meta", "ap_seek", "ap_write", "ap_sync", "ap_ret"}
WritePcs  == {"wr_seek", "wr_write", "wr_sync", "wr_ret"}
ReadPcs   == {"rd_seek", "rd_read"}

\* Threads inside a call that names page `loc`, other than t.
OthersOn(t, loc) ==
    {u \in Threads \ {t} : pc[u] \in WritePcs \cup ReadPcs /\ call[u].loc = loc}

OtherWritersOn(t, loc) ==
    {u \in Threads \ {t} : pc[u] \in WritePcs /\ call[u].loc = loc}

\* A call on page `loc` starts: reads of `loc` in progress are no longer due
\* any particular content.
Disturbed(t, loc, mine) ==
    [u \in Threads |->
        IF u = t THEN mine
        ELSE IF pc[u] \in ReadPcs /\ call[u].loc = loc THEN NoPage
        ELSE expect[u]]

CanCall(t) == pc[t] = "idle" /\ nops < MaxOps

\* DiskMgrCtx's bookkeeping fields, as a call finds them.
Counters == <<num_writes, num_flushes, last_write>>

\* A write_page / append_page call of thread t returns: what it was asked,
\* whether it returned Ok, and the bookkeeping before and after it. The
\* primed fields are the ones the returning step leaves behind.
Logged(t, loc, ok) ==
    [op |-> call[t].op, loc |-> loc, buf |-> call[t].buf, ok |-> ok,
     pre |-> call[t].pre, post |-> <<num_writes', num_flushes', last_write'>>]

\* --------------------------------------------------- DiskMgr::read_page
CallReadPage(t, loc) ==
    /\ CanCall(t)
    /\ pc' = [pc EXCEPT ![t] = "rd_seek"]
    /\ call' = [call EXCEPT ![t] = [op |-> "read_page", loc |-> loc, buf |-> empty,
                                    pre |-> Counters]]
    /\ expect' = Disturbed(t, loc, IF OthersOn(t, loc) = {} THEN committed[loc] ELSE NoPage)
    /\ nops' = nops + 1
    /\ UNCHANGED <<diskVars, poolVars, fsVars, page_id, ret, returned, wlog, committed, occupied>>

\* read_bytes: handle.seek(SeekFrom::Start(offset))
RdSeek(t) ==
    /\ pc[t] = "rd_seek"
    /\ pos' = PageOffset(call[t].loc)
    /\ pc' = [pc EXCEPT ![t] = "rd_read"]
    /\ UNCHANGED <<file, num_writes, num_flushes, last_write, poolVars, fsVars,
                   call, page_id, ret, nops, returned, wlog, committed, expect, occupied>>

\* read_bytes: handle.read(buffer), then Ok(())
RdRead(t) ==
    /\ pc[t] = "rd_read"
    /\ pos' = pos + ReadCount(file, pos)
    /\ ret' = [ret EXCEPT ![t] = [op |-> "read_page", loc |-> call[t].loc,
                                  val |-> ReadAt(file, pos, call[t].buf),
                                  exp |-> expect[t], occ |-> FALSE,
                                  ok |-> TRUE, n |-> ReadCount(file, pos)]]
    /\ pc' = [pc EXCEPT ![t] = "idle"]
    /\ UNCHANGED <<file, num_writes, num_flushes, last_write, poolVars, fsVars,
                   call, page_id, nops, returned, wlog, committed, expect, occupied>>

\* -------------------------------------------------- DiskMgr::write_page
CallWritePage(t, buf, loc) ==
    /\ CanCall(t)
    /\ pc' = [pc EXCEPT ![t] = "wr_seek"]
    /\ call' = [call EXCEPT ![t] = [op |-> "write_page", loc |-> loc, buf |-> buf,
                                    pre |-> Counters]]
    /\ committed' = [committed EXCEPT ![loc] = NoPage]
    /\ expect' = Disturbed(t, loc, NoPage)
    /\ nops' = nops + 1
    /\ UNCHANGED <<diskVars, poolVars, fsVars, page_id, ret, returned, wlog, occupied>>

\* write_bytes: handle.seek(SeekFrom::Start(offset))
WrSeek(t) ==
    /\ pc[t] = "wr_seek"
    /\ pos' = PageOffset(call[t].loc)
    /\ pc' = [pc EXCEPT ![t] = "wr_write"]
    /\ UNCHANGED <<file, num_writes, num_flushes, last_write, poolVars, fsVars,
                   call, page_id, ret, nops, returned, wlog, committed, expect, occupied>>

\* write_bytes: handle.write(bytes)
WrWrite(t) ==
    /\ pc[t] = "wr_write"
    /\ file' = WriteAt(file, pos, call[t].buf)
    /\ pos' = pos + PAGE_SIZE
    /\ pc' = [pc EXCEPT ![t] = "wr_sync"]
    /\ UNCHANGED <<num_writes, num_flushes, last_write, poolVars, fsVars,
                   call, page_id, ret, nops, returned, wlog, committed, expect, occupied>>

\* sync_all() without the count of the write before it.
WrSyncUncounted(t) ==
    /\ pc[t] = "wr_sync"
    /\ pc' = [pc EXCEPT ![t] = "wr_ret"]
    /\ UNCHANGED <<file, pos, num_writes, num_flushes, last_write, poolVars, fsVars,
                   call, page_id, ret, nops, returned, wlog, committed, expect, occupied>>

\* inner.num_writes += 1; inner.handle.sync_all()
WrSync(t) ==
    /\ pc[t] = "wr_sync"
    /\ num_writes' = num_writes + 1
    /\ pc' = [pc EXCEPT ![t] = "wr_ret"]
    /\ UNCHANGED <<file, pos, num_flushes, last_write, poolVars, fsVars,
                   call, page_id, ret, nops, returned, wlog, committed, expect, occupied>>

\* inner.num_flushes += 1; inner.last_write = loc; Ok(())
WrRet(t) ==
    /\ pc[t] = "wr_ret"
    /\ num_flushes' = num_flushes + 1
    /\ last_write' = call[t].loc
    /\ ret' = [ret EXCEPT ![t] = [op |-> "write_page", loc |-> call[t].loc,
                                  val |-> call[t].buf, exp |-> NoPage, occ |-> FALSE,
                                  ok |-> TRUE, n |-> 0]]
    /\ committed' = [committed EXCEPT ![call[t].loc] =
                        IF OtherWritersOn(t, call[t].loc) = {} THEN call[t].buf ELSE NoPage]
    /\ pc' = [pc EXCEPT ![t] = "idle"]
    /\ UNCHANGED <<file, pos, num_writes, poolVars, fsVars,
                   call, page_id, nops, returned, expect, occupied>>
    /\ wlog' = Append(wlog, Logged(t, call[t].loc, TRUE))

\* ------------------------------------- DiskMgr::append_page, fs::append_bytes
CallAppendPage(t, buf) ==
    /\ CanCall(t)
    /\ pc' = [pc EXCEPT ![t] = "ap_meta"]
    /\ call' = [call EXCEPT ![t] = [op |-> "append_page", loc |-> -1, buf |-> buf,
                                    pre |-> Counters]]
    /\ expect' = [u \in Threads |-> NoPage]
    /\ nops' = nops + 1
    /\ UNCHANGED <<diskVars, poolVars, fsVars, page_id, ret, returned, wlog, committed, occupied>>

\* BufferPool::alloc_page: self.read(), page::empty(), inner.mgr.append_page(&buf)
CallAllocPage(t) ==
    /\ CanCall(t)
    /\ ReadLock(t)
    /\ pc' = [pc EXCEPT ![t] = "ap_meta"]
    /\ call' = [call EXCEPT ![t] = [op |-> "alloc_page", loc |-> -1, buf |-> empty,
                                    pre |-> Counters]]
    /\ expect' = [u \in Threads |-> NoPage]
    /\ nops' = nops + 1
    /\ UNCHANGED <<diskVars, free_list, frames, page_table, frVars, fsVars,
                   page_id, ret, returned, wlog, committed, occupied>>

\* append_bytes: handle.metadata(), page_id = stat.len() / PAGE_SIZE
ApMeta(t) ==
    /\ pc[t] = "ap_meta"
    /\ page_id' = [page_id EXCEPT ![t] = AppendPageId(FileLen(file))]
    /\ pc' = [pc EXCEPT ![t] = "ap_seek"]
    /\ UNCHANGED <<diskVars, poolVars, fsVars,
                   call, ret, nops, returned, wlog, committed, expect, occupied>>

\* append_bytes: handle.seek(SeekFrom::End(0))
ApSeek(t) ==
    /\ pc[t] = "ap_seek"
    /\ pos' = SeekEnd(FileLen(file))
    /\ pc' = [pc EXCEPT ![t] = "ap_write"]
    /\ UNCHANGED <<file, num_writes, num_flushes, last_write, poolVars, fsVars,
                   call, page_id, ret, nops, returned, wlog, committed, expect, occupied>>

\* append_bytes: handle.write(bytes)
ApWrite(t) ==
    /\ pc[t] = "ap_write"
    /\ file' = WriteAt(file, pos, call[t].buf)
    /\ pos' = pos + PAGE_SIZE
    /\ occupied' = [occupied EXCEPT ![t] = PageOffset(page_id[t]) < FileLen(file)]
    /\ pc' = [pc EXCEPT ![t] = "ap_sync"]
    /\ UNCHANGED <<num_writes, num_flushes, last_write, poolVars, fsVars,
                   call, page_id, ret, nops, returned, wlog, committed, expect>>

\* inner.num_writes += 1; inner.handle.sync_all()
ApSync(t) ==
    /\ pc[t] = "ap_sync"
    /\ num_writes' = num_writes + 1
    /\ pc' = [pc EXCEPT ![t] = "ap_ret"]
    /\ UNCHANGED <<file, pos, num_flushes, last_write, poolVars, fsVars,
                   call, page_id, ret, nops, returned, wlog, committed, expect, occupied>>

\* inner.num_flushes += 1; inner.last_write = page_id; Ok(page_id); alloc_page
\* drops its read guard and returns the id.
ApRet(t) ==
    /\ pc[t] = "ap_ret"
    /\ num_flushes' = num_flushes + 1
    /\ last_write' = page_id[t]
    /\ ReadUnlock(t)
    /\ returned' = Append(returned, page_id[t])
    /\ ret' = [ret EXCEPT ![t] = [op |-> call[t].op, loc |-> page_id[t],
                                  val |-> call[t].buf, exp |-> NoPage,
                                  occ |-> occupied[t], ok |-> TRUE, n |-> 0]]
    /\ pc' = [pc EXCEPT ![t] = "idle"]
    /\ UNCHANGED <<file, pos, num_writes, free_list, frames, page_table, frVars, fsVars,
                   call, page_id, nops, committed, expect, occupied>>
    /\ wlog' = Append(wlog, Logged(t, page_id[t], TRUE))

\* ------------------------------------------------------------- BufferPool
\* A body that takes the front of the free list and then gives up, the frame
\* entered nowhere.
TodoPops(t, op, p) ==
    /\ pc' = [pc EXCEPT ![t] = "panicked"]
    /\ call' = [call EXCEPT ![t] = [op |-> op, loc |-> p, buf |-> NoPage,
                                    pre |-> Counters]]
    /\ nops' = nops + 1
    /\ free_list' = Tail(free_list)
    /\ UNCHANGED <<diskVars, frames, page_table, readers, frVars, fsVars,
                   page_id, ret, returned, wlog, committed, expect, occupied>>

\* todo!(): the calling thread panics before it touches the pool.
Todo(t, op, p) ==
    /\ pc' = [pc EXCEPT ![t] = "panicked"]
    /\ call' = [call EXCEPT ![t] = [op |-> op, loc |-> p, buf |-> NoPage,
                                    pre |-> Counters]]
    /\ nops' = nops + 1
    /\ UNCHANGED <<diskVars, poolVars, fsVars,
                   page_id, ret, returned, wlog, committed, expect, occupied>>

new_page(t, p) ==
    /\ CanCall(t)
    /\ Todo(t, "new_page", p)

fetch_page(t, p) ==
    /\ CanCall(t)
    /\ Todo(t, "fetch_page", p)

unpin_page(t, p) ==
    /\ CanCall(t)
    /\ Todo(t, "unpin_page", p)

flush_page(t, p) ==
    /\ CanCall(t)
    /\ Todo(t, "flush_page", p)

flush_all(t) ==
    /\ CanCall(t)
    /\ Todo(t, "flush_all", -1)

delete_page(t, p) ==
    /\ CanCall(t)
    /\ Todo(t, "delete_page", p)

\* BufferPool::size: self.read(); inner.frames.len()
size(t) ==
    /\ CanCall(t)
    /\ call' = [call EXCEPT ![t] = [op |-> "size", loc |-> -1, buf |-> NoPage,
                                    pre |-> Counters]]
    /\ ret' = [ret EXCEPT ![t] = [op |-> "size", loc |-> Len(frames),
                                  val |-> NoPage, exp |-> NoPage, occ |-> FALSE,
                                  ok |-> TRUE, n |-> 0]]
    /\ nops' = nops + 1
    /\ UNCHANGED <<diskVars, poolVars, fsVars,
                   pc, page_id, returned, wlog, committed, expect, occupied>>

\* ------------------------------------------------------------ I/O failures
\* A system call of a disk operation fails: `?` returns Err(e) from read_bytes /
\* write_bytes / append_bytes and then from the DiskMgr method. alloc_page
\* unwraps the result, so its thread panics, and unwinding drops its read
\* guard.
Failed(t, loc) ==
    /\ ret' = [ret EXCEPT ![t] = [op |-> call[t].op, loc |-> loc,
                                  val |-> NoPage, exp |-> NoPage, occ |-> FALSE,
                                  ok |-> FALSE, n |-> 0]]
    /\ pc' = [pc EXCEPT ![t] = IF call[t].op = "alloc_page" THEN "panicked" ELSE "idle"]
    /\ ReadUnlock(t)

\* read_bytes: handle.seek(..)? fails
RdSeekFail(t) ==
    /\ pc[t] = "rd_seek"
    /\ Failed(t, call[t].loc)
    /\ UNCHANGED <<diskVars, free_list, frames, page_table, frVars, fsVars,
                   call, page_id, nops, returned, committed, expect, occupied, wlog>>

\* read_bytes: handle.read(buffer)? fails
RdReadFail(t) ==
    /\ pc[t] = "rd_read"
    /\ Failed(t, call[t].loc)
    /\ UNCHANGED <<diskVars, free_list, frames, page_table, frVars, fsVars,
                   call, page_id, nops, returned, committed, expect, occupied, wlog>>

\* write_bytes: handle.seek(..)? fails
WrSeekFail(t) ==
    /\ pc[t] = "wr_seek"
    /\ Failed(t, call[t].loc)
    /\ UNCHANGED <<diskVars, free_list, frames, page_table, frVars, fsVars,
                   call, page_id, nops, returned, committed, expect, occupied>>
    /\ wlog' = Append(wlog, Logged(t, call[t].loc, FALSE))

\* write_bytes: handle.write(bytes)? fails; no byte reaches the file
WrWriteFail(t) ==
    /\ pc[t] = "wr_write"
    /\ Failed(t, call[t].loc)
    /\ UNCHANGED <<diskVars, free_list, frames, page_table, frVars, fsVars,
                   call, page_id, nops, returned, committed, expect, occupied>>
    /\ wlog' = Append(wlog, Logged(t, call[t].loc, FALSE))

\* write_page: inner.num_writes += 1; inner.handle.sync_all()? fails
WrSyncFail(t) ==
    /\ pc[t] = "wr_sync"
    /\ num_writes' = num_writes + 1
    /\ Failed(t, call[t].loc)
    /\ UNCHANGED <<file, pos, num_flushes, last_write, free_list, frames, page_table, frVars, fsVars,
                   call, page_id, nops, returned, committed, expect, occupied>>
    /\ wlog' = Append(wlog, Logged(t, call[t].loc, FALSE))

\* append_bytes: handle.metadata()? fails
ApMetaFail(t) ==
    /\ pc[t] = "ap_meta"
    /\ Failed(t, -1)
    /\ UNCHANGED <<diskVars, free_list, frames, page_table, frVars, fsVars,
                   call, page_id, nops, returned, committed, expect, occupied>>
    /\ wlog' = Append(wlog, Logged(t, -1, FALSE))

\* append_bytes: handle.seek(SeekFrom::End(0))? fails
ApSeekFail(t) ==
    /\ pc[t] = "ap_seek"
    /\ Failed(t, page_id[t])
    /\ UNCHANGED <<diskVars, free_list, frames, page_table, frVars, fsVars,
                   call, page_id, nops, returned, committed, expect, occupied>>
    /\ wlog' = Append(wlog, Logged(t, page_id[t], FALSE))

\* append_bytes: handle.write(bytes)? fails; no byte reaches the file
ApWriteFail(t) ==
    /\ pc[t] = "ap_write"
    /\ Failed(t, page_id[t])
    /\ UNCHANGED <<diskVars, free_list, frames, page_table, frVars, fsVars,
                   call, page_id, nops, returned, committed, expect, occupied>>
    /\ wlog' = Append(wlog, Logged(t, page_id[t], FALSE))

\* append_page: inner.num_writes += 1; inner.handle.sync_all()? fails
ApSyncFail(t) ==
    /\ pc[t] = "ap_sync"
    /\ num_writes' = num_writes + 1
    /\ Failed(t, page_id[t])
    /\ UNCHANGED <<file, pos, num_flushes, last_write, free_list, frames, page_table, frVars, fsVars,
                   call, page_id, nops, returned, committed, expect, occupied>>
    /\ wlog' = Append(wlog, Logged(t, page_id[t], FALSE))

\* ------------------------------------------------------------------- Spec
AppendSteps(t) ==
    \/ \E buf \in Bufs : CallAppendPage(t, buf)
    \/ CallAllocPage(t)
    \/ ApMeta(t)
    \/ ApSeek(t)
    \/ ApWrite(t)
    \/ ApSync(t)
    \/ ApRet(t)

DiskSteps(t) ==
    \/ \E loc \in PageIds : CallReadPage(t, loc)
    \/ RdSeek(t)
    \/ RdRead(t)
    \/ \E buf \in Bufs, loc \in PageIds : CallWritePage(t, buf, loc)
    \/ WrSeek(t)
    \/ WrWrite(t)
    \/ WrSync(t)
    \/ WrRet(t)

PoolSteps(t) ==
    \/ \E p \in PageIds : new_page(t, p)
    \/ \E p \in PageIds : fetch_page(t, p)
    \/ \E p \in PageIds : unpin_page(t, p)
    \/ \E p \in PageIds : flush_page(t, p)
    \/ flush_all(t)
    \/ \E p \in PageIds : delete_page(t, p)
    \/ size(t)

Next == \E t \in Threads : AppendSteps(t) \/ DiskSteps(t) \/ PoolSteps(t)

Spec == Init /\ [][Next]_vars

\* One call at a time, append calls only, on the file create() left empty.
Quiet(t) == \A u \in Threads \ {t} : pc[u] = "idle"

SeqNext ==
    \E t \in Threads :
        \/ Quiet(t) /\ \E buf \in Bufs : CallAppendPage(t, buf)
        \/ Quiet(t) /\ CallAllocPage(t)
        \/ Quiet(t) /\ ApMeta(t)
        \/ Quiet(t) /\ ApSeek(t)
        \/ Quiet(t) /\ ApWrite(t)
        \/ Quiet(t) /\ ApSync(t)
        \/ Quiet(t) /\ ApRet(t)

SeqSpec == Init /\ [][SeqNext]_vars

\* One call at a time, any operation, and any system call of a disk operation
\* may fail. A thread that panicked makes no further call. The threads being
\* alike, the calls are made by the first thread that has not panicked.
Alone(t) ==
    /\ \A u \in Threads \ {t} : pc[u] \in {"idle", "panicked"}
    /\ \A u \in Threads : u < t => pc[u] = "panicked"

IoNext ==
    \E t \in Threads :
        \/ Alone(t) /\ \E loc \in PageIds : CallReadPage(t, loc)
        \/ Alone(t) /\ RdSeek(t)
        \/ Alone(t) /\ RdRead(t)
        \/ Alone(t) /\ \E buf \in Bufs, loc \in PageIds : CallWritePage(t, buf, loc)
        \/ Alone(t) /\ WrSeek(t)
        \/ Alone(t) /\ WrWrite(t)
        \/ Alone(t) /\ WrSync(t)
        \/ Alone(t) /\ WrRet(t)
        \/ Alone(t) /\ \E buf \in Bufs : CallAppendPage(t, buf)
        \/ Alone(t) /\ CallAllocPage(t)
        \/ Alone(t) /\ ApMeta(t)
        \/ Alone(t) /\ ApSeek(t)
        \/ Alone(t) /\ ApWrite(t)
        \/ Alone(t) /\ ApSync(t)
        \/ Alone(t) /\ ApRet(t)
        \/ Alone(t) /\ RdSeekFail(t)
        \/ Alone(t) /\ RdReadFail(t)
        \/ Alone(t) /\ WrSeekFail(t)
        \/ Alone(t) /\ WrWriteFail(t)
        \/ Alone(t) /\ WrSyncFail(t)
        \/ Alone(t) /\ ApMetaFail(t)
        \/ Alone(t) /\ ApSeekFail(t)
        \/ Alone(t) /\ ApWriteFail(t)
        \/ Alone(t) /\ ApSyncFail(t)
        \/ Alone(t) /\ \E p \in PageIds : new_page(t, p)
        \/ Alone(t) /\ \E p \in PageIds : fetch_page(t, p)
        \/ Alone(t) /\ \E p \in PageIds : unpin_page(t, p)
        \/ Alone(t) /\ \E p \in PageIds : flush_page(t, p)
        \/ Alone(t) /\ flush_all(t)
        \/ Alone(t) /\ \E p \in PageIds : delete_page(t, p)
        \/ Alone(t) /\ size(t)

IoSpec == Init /\ [][IoNext]_vars

\* The BufferPool's own operations, called one after another.
PoolNext ==
    \E t \in Threads :
        \/ Alone(t) /\ CallAllocPage(t)
        \/ Alone(t) /\ ApMeta(t)
        \/ Alone(t) /\ ApSeek(t)
        \/ Alone(t) /\ ApWrite(t)
        \/ Alone(t) /\ ApSync(t)
        \/ Alone(t) /\ ApRet(t)
        \/ Alone(t) /\ \E p \in PageIds : new_page(t, p)
        \/ Alone(t) /\ \E p \in PageIds : fetch_page(t, p)
        \/ Alone(t) /\ \E p \in PageIds : unpin_page(t, p)
        \/ Alone(t) /\ \E p \in PageIds : flush_page(t, p)
        \/ Alone(t) /\ flush_all(t)
        \/ Alone(t) /\ \E p \in PageIds : delete_page(t, p)
        \/ Alone(t) /\ size(t)

PoolSpec == Init /\ [][PoolNext]_vars

\* ------------------------------------------------ fs.rs: write_song(ctx, song)
\* write_song entered without ctx.latch().
WsLatchSkipped(w) ==
    /\ tpc[w] = "start"
    /\ tpc' = [tpc EXCEPT ![w] = "latched"]
    /\ UNCHANGED <<diskVars, poolVars, thrVars, latch, sem, last_written_id,
                   ctx_num_writes, tbuf>>

\* Task w writes song w. ctx.latch()
WsLatch(w) ==
    /\ tpc[w] = "start"
    /\ Acquire(w)
    /\ tpc' = [tpc EXCEPT ![w] = "latched"]
    /\ UNCHANGED <<diskVars, poolVars, thrVars, sem, last_written_id, ctx_num_writes, tbuf>>

\* if inner.num_writes >= 10 { inner.sem.post(); return Ok(()); }
WsLimit(w) ==
    /\ tpc[w] = "latched"
    /\ ctx_num_writes >= WriteLimit
    /\ Post
    /\ tpc' = [tpc EXCEPT ![w] = "done"]
    /\ UNCHANGED <<diskVars, poolVars, thrVars, latch, last_written_id, ctx_num_writes, tbuf>>

\* write_bytes(.., song.id as u64 * PAGE_SIZE as u64): handle.seek
WsSeek(w) ==
    /\ tpc[w] = "latched"
    /\ ctx_num_writes < WriteLimit
    /\ pos' = PageOffset(Song(w).id)
    /\ tpc' = [tpc EXCEPT ![w] = "seeked"]
    /\ UNCHANGED <<file, num_writes, num_flushes, last_write, poolVars, thrVars,
                   latch, sem, last_written_id, ctx_num_writes, tbuf>>

\* write_bytes: handle.write(bytes) of io::to_buffer(song)
WsWrite(w) ==
    /\ tpc[w] = "seeked"
    /\ file' = WriteAt(file, pos, to_buffer(Song(w)))
    /\ pos' = pos + PAGE_SIZE
    /\ tpc' = [tpc EXCEPT ![w] = "written"]
    /\ UNCHANGED <<num_writes, num_flushes, last_write, poolVars, thrVars,
                   latch, sem, last_written_id, ctx_num_writes, tbuf>>

\* inner.last_written_id = song.id; inner.num_writes += 1; ctx.unlatch()
WsFinish(w) ==
    /\ tpc[w] = "written"
    /\ last_written_id' = Song(w).id
    /\ ctx_num_writes' = ctx_num_writes + 1
    /\ Release
    /\ tpc' = [tpc EXCEPT ![w] = "done"]
    /\ UNCHANGED <<diskVars, poolVars, thrVars, sem, tbuf>>

\* ------------------------------------------------------ fs.rs: read_song(ctx)
\* ctx.latch()
RsLatch(r) ==
    /\ tpc[r] = "start"
    /\ Acquire(r)
    /\ tpc' = [tpc EXCEPT ![r] = "latched"]
    /\ UNCHANGED <<diskVars, poolVars, thrVars, sem, last_written_id, ctx_num_writes, tbuf>>

\* buf = [0u8; PAGE_SIZE]; read_bytes(.., *ctx_last_written_id * PAGE_SIZE): seek
RsSeek(r) ==
    /\ tpc[r] = "latched"
    /\ tbuf' = [tbuf EXCEPT ![r] = empty]
    /\ pos' = PageOffset(last_written_id)
    /\ tpc' = [tpc EXCEPT ![r] = "seeked"]
    /\ UNCHANGED <<file, num_writes, num_flushes, last_write, poolVars, thrVars,
                   latch, sem, last_written_id, ctx_num_writes>>

\* read_bytes: handle.read(buffer)
RsRead(r) ==
    /\ tpc[r] = "seeked"
    /\ tbuf' = [tbuf EXCEPT ![r] = ReadAt(file, pos, tbuf[r])]
    /\ pos' = pos + ReadCount(file, pos)
    /\ tpc' = [tpc EXCEPT ![r] = "read"]
    /\ UNCHANGED <<file, num_writes, num_flushes, last_write, poolVars, thrVars,
                   latch, sem, last_written_id, ctx_num_writes>>

\* decoded = from_buffer(&buf); assert!(decoded.id == *ctx_last_written_id);
\* ctx.unlatch(); the local buf ends with the call. A failed assert panics
\* the task, the latch still held.
RsAssert(r) ==
    /\ tpc[r] = "read"
    /\ IF from_buffer(tbuf[r]).id = last_written_id
       THEN /\ Release
            /\ tpc' = [tpc EXCEPT ![r] = "done"]
       ELSE /\ latch' = latch
            /\ tpc' = [tpc EXCEPT ![r] = "panicked"]
    /\ tbuf' = [tbuf EXCEPT ![r] = empty]
    /\ UNCHANGED <<diskVars, poolVars, thrVars, sem, last_written_id, ctx_num_writes>>

\* test_concurrent_file_io: ctx.wait() on the main thread (task 0)
FsWait ==
    /\ tpc[0] = "start"
    /\ Wait
    /\ tpc' = [tpc EXCEPT ![0] = "done"]
    /\ UNCHANGED <<diskVars, poolVars, thrVars, latch, last_written_id, ctx_num_writes, tbuf>>

\* setup(): the file holds song 0 at page 0, written through the handle.
FsInit ==
    /\ file = WriteAt(EmptyFile, PageOffset(0), to_buffer(Song(0)))
    /\ pos = PAGE_SIZE
    /\ DiskInit /\ PoolInit /\ FrameInit /\ ThreadsInit /\ CtxInit

FsNext ==
    \/ \E w \in Writers : WsLatch(w) \/ WsLimit(w) \/ WsSeek(w) \/ WsWrite(w) \/ WsFinish(w)
    \/ \E r \in Readers : RsLatch(r) \/ RsSeek(r) \/ RsRead(r) \/ RsAssert(r)
    \/ FsWait

FsSpec == FsInit /\ [][FsNext]_vars

\* ----------------------------------------- bufmgr.rs: FrameApi on one frame
\* A page is copied and overwritten in two pieces, the low and the high half
\* of its bytes: neither `inner.page` (a copy out) nor
\* `inner.page = [0u8; PAGE_SIZE]` is one indivisible access.
Lo(page) == SubSeq(page, 1, Len(page) \div 2)
Hi(page) == SubSeq(page, Len(page) \div 2 + 1, Len(page))

FrCanCall(t) == fpc[t] = "idle" /\ nops < MaxOps

\* Steps of the disk, pool and fs scenarios leave the frame alone and the
\* frame's steps leave them alone.
FrOthers == <<diskVars, free_list, frames, page_table, readers, fsVars,
              pc, call, page_id, ret, returned, committed, expect, occupied, wlog>>

\* data(): let inner = unsafe { &*self.data_ptr() }; no latch is taken.
FrCallData(t) ==
    /\ FrCanCall(t)
    /\ fpc' = [fpc EXCEPT ![t] = "fd_lo"]
    /\ nops' = nops + 1
    /\ UNCHANGED <<frame, fval, FrOthers>>

\* inner.page, copied out: the low half
FrDataLo(t) ==
    /\ fpc[t] = "fd_lo"
    /\ fval' = [fval EXCEPT ![t] = Lo(frame.page)]
    /\ fpc' = [fpc EXCEPT ![t] = "fd_hi"]
    /\ UNCHANGED <<frame, nops, FrOthers>>

\* inner.page, copied out: the high half; data() returns the copy
FrDataHi(t) ==
    /\ fpc[t] = "fd_hi"
    /\ fval' = [fval EXCEPT ![t] = fval[t] \o Hi(frame.page)]
    /\ fpc' = [fpc EXCEPT ![t] = "idle"]
    /\ UNCHANGED <<frame, nops, FrOthers>>

\* is_dirty(): let inner = unsafe { &*self.data_ptr() }; no latch is taken.
FrCallIsDirty(t) ==
    /\ FrCanCall(t)
    /\ fpc' = [fpc EXCEPT ![t] = "fi_read"]
    /\ nops' = nops + 1
    /\ UNCHANGED <<frame, fval, FrOthers>>

\* inner.dirty
FrIsDirtyRead(t) ==
    /\ fpc[t] = "fi_read"
    /\ fval' = [fval EXCEPT ![t] = <<frame.dirty>>]
    /\ fpc' = [fpc EXCEPT ![t] = "idle"]
    /\ UNCHANGED <<frame, nops, FrOthers>>

\* reset(): let mut inner = unsafe { &mut *self.data_ptr() }; no latch is taken.
FrCallReset(t) ==
    /\ FrCanCall(t)
    /\ fpc' = [fpc EXCEPT ![t] = "fr_lo"]
    /\ nops' = nops + 1
    /\ UNCHANGED <<frame, fval, FrOthers>>

\* inner.page = [0u8; PAGE_SIZE]: the low half
FrResetLo(t) ==
    /\ fpc[t] = "fr_lo"
    /\ frame' = [frame EXCEPT !.page = Lo(empty) \o Hi(frame.page)]
    /\ fpc' = [fpc EXCEPT ![t] = "fr_hi"]
    /\ UNCHANGED <<fval, nops, FrOthers>>

\* inner.page = [0u8; PAGE_SIZE]: the high half; reset() returns
FrResetHi(t) ==
    /\ fpc[t] = "fr_hi"
    /\ frame' = [frame EXCEPT !.page = Lo(frame.page) \o Hi(empty)]
    /\ fpc' = [fpc EXCEPT ![t] = "idle"]
    /\ fval' = [fval EXCEPT ![t] = NoPage]
    /\ UNCHANGED <<nops, FrOthers>>

\* A frame that holds some page, clean or dirty, shared by the threads.
FrInit ==
    /\ file = EmptyFile
    /\ pos = 0
    /\ DiskInit /\ PoolInit /\ ThreadsInit /\ CtxInit
    /\ \E page \in Bufs, dirty \in BOOLEAN : frame = Frame(page, dirty)
    /\ fpc = [t \in Threads |-> "idle"]
    /\ fval = [t \in Threads |-> NoPage]

FrNext ==
    \E t \in Threads :
        \/ FrCallData(t)
        \/ FrDataLo(t)
        \/ FrDataHi(t)
        \/ FrCallIsDirty(t)
        \/ FrIsDirtyRead(t)
        \/ FrCallReset(t)
        \/ FrResetLo(t)
        \/ FrResetHi(t)

FrSpec == FrInit /\ [][FrNext]_vars

\* -------------------------------------- diskmgr.rs: write_song(mgr, song, sem)
\* The steps of this scenario leave the pool, the API threads and the rest of
\* the fs.rs context alone.
DmOthers == <<poolVars, thrVars, last_written_id, ctx_num_writes>>

\* Task w writes songs[w - 1], whose id is w. mgr.latch()
DwLatch(w) ==
    /\ tpc[w] = "start"
    /\ Acquire(w)
    /\ tpc' = [tpc EXCEPT ![w] = "latched"]
    /\ UNCHANGED <<diskVars, sem, tbuf, DmOthers>>

\* if inner.num_writes >= 5 { sem.post(); return Ok(()); }
DwLimit(w) ==
    /\ tpc[w] = "latched"
    /\ num_writes >= DmWriteLimit
    /\ Post
    /\ tpc' = [tpc EXCEPT ![w] = "done"]
    /\ UNCHANGED <<diskVars, latch, tbuf, DmOthers>>

\* mgr.write_page(&buf, song.id as u64): write_bytes, handle.seek
DwSeek(w) ==
    /\ tpc[w] = "latched"
    /\ num_writes < DmWriteLimit
    /\ pos' = PageOffset(Song(w).id)
    /\ tpc' = [tpc EXCEPT ![w] = "seeked"]
    /\ UNCHANGED <<file, num_writes, num_flushes, last_write, latch, sem, tbuf, DmOthers>>

\* write_bytes: handle.write(bytes) of io::to_buffer(song)
DwWrite(w) ==
    /\ tpc[w] = "seeked"
    /\ file' = WriteAt(file, pos, to_buffer(Song(w)))
    /\ pos' = pos + PAGE_SIZE
    /\ tpc' = [tpc EXCEPT ![w] = "written"]
    /\ UNCHANGED <<num_writes, num_flushes, last_write, latch, sem, tbuf, DmOthers>>

\* write_page: inner.num_writes += 1; inner.handle.sync_all()
DwSync(w) ==
    /\ tpc[w] = "written"
    /\ num_writes' = num_writes + 1
    /\ tpc' = [tpc EXCEPT ![w] = "synced"]
    /\ UNCHANGED <<file, pos, num_flushes, last_write, latch, sem, tbuf, DmOthers>>

\* write_page: inner.num_flushes += 1; inner.last_write = loc; then
\* mgr.unlatch(); Ok(())
DwFinish(w) ==
    /\ tpc[w] = "synced"
    /\ num_flushes' = num_flushes + 1
    /\ last_write' = Song(w).id
    /\ Release
    /\ tpc' = [tpc EXCEPT ![w] = "done"]
    /\ UNCHANGED <<file, pos, num_writes, sem, tbuf, DmOthers>>

\* ------------------------------------------------ diskmgr.rs: read_song(mgr)
\* mgr.latch()
DrLatch(r) ==
    /\ tpc[r] = "start"
    /\ Acquire(r)
    /\ tpc' = [tpc EXCEPT ![r] = "latched"]
    /\ UNCHANGED <<diskVars, sem, tbuf, DmOthers>>

\* mgr.read_page(&mut buf, inner.last_write as u64) with last_write = -1: the
\* cast gives u64::MAX and loc * PAGE_SIZE overflows. A build with overflow
\* checks panics there; one without wraps to an offset handle.seek rejects and
\* `?` returns the error, on which the task's assert panics. Either way the
\* task ends before mgr.unlatch().
DrBadPage(r) ==
    /\ tpc[r] = "latched"
    /\ last_write = INVALID_PAGE_ID
    /\ tpc' = [tpc EXCEPT ![r] = "failed"]
    /\ UNCHANGED <<diskVars, latch, sem, tbuf, DmOthers>>

\* buf = [0u8; PAGE_SIZE]; read_page: read_bytes, handle.seek
DrSeek(r) ==
    /\ tpc[r] = "latched"
    /\ last_write # INVALID_PAGE_ID
    /\ tbuf' = [tbuf EXCEPT ![r] = empty]
    /\ pos' = PageOffset(last_write)
    /\ tpc' = [tpc EXCEPT ![r] = "seeked"]
    /\ UNCHANGED <<file, num_writes, num_flushes, last_write, latch, sem, DmOthers>>

\* read_bytes: handle.read(buffer)
DrRead(r) ==
    /\ tpc[r] = "seeked"
    /\ tbuf' = [tbuf EXCEPT ![r] = ReadAt(file, pos, tbuf[r])]
    /\ pos' = pos + ReadCount(file, pos)
    /\ tpc' = [tpc EXCEPT ![r] = "read"]
    /\ UNCHANGED <<file, num_writes, num_flushes, last_write, latch, sem, DmOthers>>

\* decoded = io::from_buffer(&buf).unwrap(); mgr.unlatch(); Ok(()); the local
\* buf ends with the call.
DrFinish(r) ==
    /\ tpc[r] = "read"
    /\ Release
    /\ tbuf' = [tbuf EXCEPT ![r] = empty]
    /\ tpc' = [tpc EXCEPT ![r] = "done"]
    /\ UNCHANGED <<diskVars, sem, DmOthers>>

\* test_concurrent_diskmgr: let state = sem.wait() on the main thread (task 0)
DmWait ==
    /\ tpc[0] = "start"
    /\ Wait
    /\ tpc' = [tpc EXCEPT ![0] = "done"]
    /\ UNCHANGED <<diskVars, latch, tbuf, DmOthers>>

\* DiskMgr::create(&path), BinarySemaphore::init(false), the tasks spawned.
DmInit ==
    /\ file = EmptyFile
    /\ pos = 0
    /\ DiskInit /\ PoolInit /\ FrameInit /\ ThreadsInit
    /\ latch = 0
    /\ sem = FALSE
    /\ last_written_id = 0
    /\ ctx_num_writes = CtxInitWrites
    /\ tpc = [k \in DmTasks \cup {0} |-> "start"]
    /\ tbuf = [k \in DmReaders |-> empty]

DmWriter(w) == DwLatch(w) \/ DwLimit(w) \/ DwSeek(w) \/ DwWrite(w) \/ DwSync(w) \/ DwFinish(w)
DmReader(r) == DrLatch(r) \/ DrBadPage(r) \/ DrSeek(r) \/ DrRead(r) \/ DrFinish(r)

DmNext ==
    \/ \E w \in DmWriters : DmWriter(w)
    \/ \E r \in DmReaders : DmReader(r)
    \/ DmWait

DmSpec == DmInit /\ [][DmNext]_vars

\* Fair scheduling: a task that can take a step is not left waiting for ever,
\* nor is the main thread.
DmFairSpec ==
    /\ DmInit /\ [][DmNext]_vars
    /\ \A w \in DmWriters : WF_vars(DmWriter(w))
    /\ \A r \in DmReaders : WF_vars(DmReader(r))
    /\ WF_vars(DmWait)

\* ================================================================= claims

\* Threads between the first and the last step of a disk operation.
InDiskOp(t) ==
    pc[t] \in {"rd_read", "wr_write", "wr_sync", "wr_ret",
               "ap_seek", "ap_write", "ap_sync", "ap_ret"}

\* C1: at most one thread is ever between the start and the end of a disk
\* operation (read_page, write_page, append_page) on one DiskMgr.
C1_MutualExclusion == Cardinality({t \in Threads : InDiskOp(t)}) <= 1

\* C2: append calls made one after another on a freshly created file return
\* the page ids 0, 1, 2, ... in call order: the n-th call (from 0) returns n.
C2_MonotonicAllocation == \A n \in 1..Len(returned) : returned[n] = n - 1

C2_Witness ==
    /\ Len(returned) = MaxOps
    /\ \E t \in Threads : ret[t].op = "alloc_page"
    /\ \E i \in 1..Len(file.pages) : file.pages[i] # empty

\* C3: no two alloc_page calls of different threads return the same page id,
\* and none returns the id of a slot that was already taken when it wrote.
C3_UniquePageIds ==
    \A t, u \in Threads :
        (t # u /\ ret[t].op = "alloc_page" /\ ret[u].op = "alloc_page")
            => (ret[t].loc # ret[u].loc /\ ~ret[t].occ)

\* No append call has been made: only read_page and write_page calls so far.
OnlyReadsAndWrites ==
    /\ returned = <<>>
    /\ \A t \in Threads : pc[t] \notin AppendPcs

\* C4: a read_page(id) issued after write_page(buf, id) has returned, with the
\* other threads calling read_page / write_page on other page ids only and no
\* later write_page on id, returns a buffer equal to buf.
C4_RoundTrip ==
    \A t \in Threads :
        (OnlyReadsAndWrites /\ ret[t].op = "read_page" /\ ret[t].exp # NoPage)
            => ret[t].val = ret[t].exp

\* C5: in the fs.rs scenario every read_song, having read the page at
\* last_written_id, holds the whole record with that id: its decoded id equals
\* last_written_id and the page is not a mix of two writes.
C5_ReadMatchesLastWritten ==
    \A r \in Readers :
        tpc[r] = "read" =>
            /\ from_buffer(tbuf[r]).id = last_written_id
            /\ tbuf[r] = to_buffer(Song(last_written_id))

C5_Witness ==
    \E r \in Readers :
        /\ tpc[r] = "read"
        /\ last_written_id > 0
        /\ ctx_num_writes > CtxInitWrites + 1

\* The step in which thread t makes the call `op`.
Calls(t, op) == pc[t] = "idle" /\ pc'[t] # "idle" /\ call'[t].op = op

\* C9: new_page and fetch_page (on a miss) called while the free list holds a
\* frame id take the frame at its front; no eviction is involved.
C9_FreeListFirst ==
    [][\A t \in Threads :
          ((Calls(t, "new_page") \/ Calls(t, "fetch_page")) /\ free_list # <<>>)
              => free_list' = Tail(free_list)]_vars

\* Frame ids held by the free list, and frame ids some page-table entry maps to.
FreeIds   == {free_list[i] : i \in 1..Len(free_list)}
MappedIds == {e[2] : e \in page_table}

\* C11: after any sequence of pool calls a frame id of the pool is in the free
\* list exactly when no page-table entry maps to it, the free list holds no
\* id twice, and no two page ids map to the same frame id.
C11_FrameOwnership ==
    LET free   == FreeIds
        mapped == MappedIds
    IN  /\ (1..BUFFER_POOL_SIZE) \ mapped = free \cap (1..BUFFER_POOL_SIZE)
        /\ Cardinality(free) = Len(free_list)
        /\ \A e1, e2 \in page_table : e1[2] = e2[2] => e1 = e2

C11_Witness ==
    /\ \E t \in Threads : pc[t] = "panicked" /\ call[t].op = "delete_page"
    /\ \E t \in Threads : ret[t].op = "alloc_page" /\ ret[t].ok

\* C12: a task that has returned from write_song / read_song does not hold the
\* context's latch: whatever path it left by, it released the latch first.
C12_LatchReleased == \A k \in Tasks : tpc[k] = "done" => latch # k

\* C20: before any call is made on a created pool the free list is 1, 2, ...,
\* BUFFER_POOL_SIZE in this order, no frame is resident and the page table
\* is empty; size() called first returns 0.
C20_InitialPoolState ==
    /\ nops = 0 =>
          /\ Len(free_list) = BUFFER_POOL_SIZE
          /\ \A i \in 1..BUFFER_POOL_SIZE : free_list[i] = i
          /\ Head(free_list) = 1
          /\ free_list[Len(free_list)] = BUFFER_POOL_SIZE
          /\ frames = <<>>
          /\ page_table = {}
    /\ \A t \in Threads : (nops = 1 /\ ret[t].op = "size") => ret[t].loc = 0

C20_Witness == nops = 1 /\ \E t \in Threads : ret[t].op = "size" /\ ret[t].loc = 0

\* C14: a read_page that returns Ok has filled its buffer with PAGE_SIZE bytes
\* read from the file; a read at or beyond the end of the file, which reads
\* no byte, does not return Ok.
C14_ReadFillsBuffer ==
    \A t \in Threads :
        (ret[t].op = "read_page" /\ ret[t].ok) => ret[t].n = PAGE_SIZE

\* C15: a write_page / append_page call that returned an error left
\* num_writes, num_flushes and last_write as it found them.
C15_StateUnchangedOnFailure ==
    \A i \in 1..Len(wlog) : ~wlog[i].ok => wlog[i].post = wlog[i].pre

\* Every write_page / append_page call so far returned Ok and none is running.
AllWritesOk ==
    /\ \A i \in 1..Len(wlog) : wlog[i].ok
    /\ \A t \in Threads : pc[t] \notin WritePcs \cup AppendPcs

\* C16: after a sequence of successful write_page / append_page calls
\* num_writes and num_flushes both equal the number of calls and last_write
\* is the page id of the last one, -1 when there was none.
C16_WriteBookkeeping ==
    AllWritesOk =>
        /\ num_writes = Len(wlog)
        /\ num_flushes = Len(wlog)
        /\ last_write = IF wlog = <<>> THEN -1 ELSE wlog[Len(wlog)].loc

C16_Witness ==
    /\ AllWritesOk
    /\ Len(wlog) = MaxOps
    /\ \E i \in 1..Len(wlog) : wlog[i].op = "write_page"
    /\ \E i \in 1..Len(wlog) : wlog[i].op = "append_page"

C19_UnpinMisuse ==
    [][\A t \in Threads :
          (Calls(t, "unpin_page") /\ frames = <<>>)
              => (pc'[t] # "panicked" /\ UNCHANGED <<page_table, free_list>>)]_vars

\* Threads inside a FrameApi method, and inside reset.
InFrame(t) == fpc[t] # "idle"
InReset(t) == fpc[t] \in {"fr_lo", "fr_hi"}

\* C13: a thread inside reset on a frame holds the frame's write latch and no
\* other thread is inside data, is_dirty or reset on that frame; a thread
\* inside data or is_dirty holds its read latch or its write latch.
C13_FrameLatched ==
    \A t \in Threads :
        /\ InReset(t) =>
              /\ frame.writer = t
              /\ \A u \in Threads \ {t} : ~InFrame(u)
        /\ (InFrame(t) /\ ~InReset(t)) => (t \in frame.readers \/ frame.writer = t)

\* Frame ids held by the free list or mapped to by the page table.
HeldIds == FreeIds \cup MappedIds

\* C21 (as stated): every frame id held in the free list or the page table
\* lies in 0 .. BUFFER_POOL_SIZE - 1.
C21_FrameIdRange == HeldIds \subseteq 0..(BUFFER_POOL_SIZE - 1)

\* C21 (amended): every frame id held in the free list or the page table lies
\* in 1 .. BUFFER_POOL_SIZE; the invalid id -1, the id 0 and ids above
\* BUFFER_POOL_SIZE never appear there.
C21_FrameIdRangeFromOne ==
    /\ HeldIds \subseteq 1..BUFFER_POOL_SIZE
    /\ INVALID_FRAME_ID \notin HeldIds
    /\ 0 \notin HeldIds

\* The pool has been used: an alloc_page returned and a new_page was called.
C21_Witness ==
    /\ BUFFER_POOL_SIZE \in HeldIds
    /\ \E t \in Threads : ret[t].op = "alloc_page" /\ ret[t].ok
    /\ \E t \in Threads : pc[t] = "panicked" /\ call[t].op = "new_page"

\* C22: in the diskmgr.rs scenario, under fair scheduling, the semaphore is
\* posted and the main thread's wait() returns.
C22_Completion == <>(tpc[0] = "done")

\* C23: in the diskmgr.rs scenario a reader that has called read_page did so
\* with last_write naming a page that a write_page has written: never with
\* the initial -1.
C23_ReadersRequestExistingPages ==
    \A r \in DmReaders :
        tpc[r] \in {"seeked", "read", "failed"} =>
            /\ last_write # INVALID_PAGE_ID
            /\ (last_write + 1) * PAGE_SIZE <= FileLen(file)

====
